---- MODULE Spec2Model ----
(***************************************************************************)
(* The timetable store (src/store/timetable.ts): a zustand store holding   *)
(* the class identity, the user's teacher-name overrides and the loaded    *)
(* timetable, its cookie persistence and its asynchronous fetches; and the *)
(* settings dialog (src/components/config-dialog.tsx).                     *)
(*                                                                         *)
(* JavaScript values are represented as follows.                           *)
(*   - A nullable value (T | null, T | undefined, a cookie that may be     *)
(*     absent) is a sequence of length 0 or 1: None or Some(v).            *)
(*   - A plain object used as a dictionary is the sequence of its          *)
(*     <<key, value>> properties in insertion order, which is the order    *)
(*     JSON.stringify and Object.keys see.                                 *)
(*   - The result of a property read that may miss (o[k], o?.k) is a       *)
(*     string; Undefined stands for the JavaScript value undefined and is  *)
(*     different from every teacher name and subject.                      *)
(***************************************************************************)
EXTENDS Integers, Sequences, FiniteSets, TLC

\* ----------------------------------------------------------------- bounds

\* At most this many fetches are awaiting their response at one time.
MaxInFlight == 2

\* ------------------------------------------------------- JavaScript values

None == <<>>
Some(v) == <<v>>
IsSome(o) == Len(o) = 1
Val(o) == o[1]

Undefined == "undefined"

\* JavaScript truthiness of a string-or-undefined value.
Truthy(v) == v # Undefined /\ v # ""

\* o[k] !== undefined for a dictionary object o.
Has(o, k) == \E i \in 1..Len(o) : o[i][1] = k

\* Position of property k in o (k must be present).
IndexOf(o, k) == CHOOSE i \in 1..Len(o) : o[i][1] = k

\* o[k] for a dictionary whose values are objects: the value (k present).
Get(o, k) == o[IndexOf(o, k)][2]

\* o[k] for a dictionary whose values are strings: Undefined when k is absent.
GetStr(o, k) == IF Has(o, k) THEN Get(o, k) ELSE Undefined

\* { ...o, [k]: v }: an existing property keeps its place, a new one is last.
Put(o, k, v) ==
  IF Has(o, k)
    THEN [i \in 1..Len(o) |-> IF o[i][1] = k THEN <<k, v>> ELSE o[i]]
    ELSE Append(o, <<k, v>>)

\* delete o[k]
Delete(o, k) == SelectSeq(o, LAMBDA p : p[1] # k)

\* Object.keys(o)
Keys(o) == [i \in 1..Len(o) |-> o[i][1]]

\* ------------------------------------------------------------ class config

DEFAULT_CONFIG ==
  [school |-> "Mogun", schoolCode |-> "7081492", grade |-> "3", class |-> "4",
   lunchAfter |-> 4]

\* A second identity the user can stage in the settings dialog.
OTHER_CONFIG ==
  [school |-> "Other", schoolCode |-> "7010057", grade |-> "1", class |-> "2",
   lunchAfter |-> 3]

Configs == {DEFAULT_CONFIG, OTHER_CONFIG}

\* `${classConfig.schoolCode}-${classConfig.grade}-${classConfig.class}`
configKey(c) == c.schoolCode \o "-" \o c.grade \o "-" \o c.class

\* ---------------------------------------------------------- timetable data

Subjects == {"Math", "Eng"}
Teachers == {"", "Kim", "Lee"}

Cell(s, t) == [subject |-> s, teacher |-> t]

\* A null entry of the grid: cell?.subject and cell?.teacher are undefined.
NullCell == Cell(Undefined, Undefined)

\* The grids (TimetableData.timetable) the server answers with.
Grids ==
  { << <<Cell("Math", "Kim"), Cell("Eng", "Lee")>>, <<Cell("Math", "Lee")>> >>,
    << <<NullCell, Cell("Math", "Lee")>>, <<Cell("Eng", "")>> >>,
    << <<Cell("Eng", "Kim")>> >> }

\* timetable.flat()
RECURSIVE flat(_)
flat(rows) == IF rows = <<>> THEN <<>> ELSE Head(rows) \o flat(Tail(rows))

\* cells.find(cell => cell?.subject === subject)?.teacher
RECURSIVE findTeacher(_, _)
findTeacher(cells, subject) ==
  IF cells = <<>> THEN Undefined
  ELSE IF Head(cells).subject = subject THEN Head(cells).teacher
  ELSE findTeacher(Tail(cells), subject)

\* timetableData?.timetable.flat().find(cell => cell?.subject === subject)?.teacher
defaultInfo(data, subject) ==
  IF IsSome(data) THEN findTeacher(flat(Val(data).timetable), subject)
  ELSE Undefined

\* -------------------------------------------------------------------- JSON
\* A JSON text is the sequence of its tokens: "{" and "}" and, between them,
\* the property names and string values in order (the quotes, colons and
\* commas carry no information and are left out).

Digits == <<"0", "1", "2", "3", "4", "5", "6", "7", "8", "9">>

\* The decimal numeral of a one-digit number, and the number of a numeral.
numberToString(n) == Digits[n + 1]
stringToNumber(s) == CHOOSE n \in 0..9 : Digits[n + 1] = s

\* JSON.stringify of a flat object of strings: <<k1, v1, k2, v2, ...>> in braces.
RECURSIVE stringifyProps(_)
stringifyProps(o) ==
  IF o = <<>> THEN <<>>
  ELSE <<Head(o)[1], Head(o)[2]>> \o stringifyProps(Tail(o))

\* JSON.stringify(teacherInfo)
RECURSIVE stringifyEntries(_)
stringifyEntries(o) ==
  IF o = <<>> THEN <<>>
  ELSE <<Head(o)[1], "{">> \o stringifyProps(Head(o)[2]) \o <<"}">>
       \o stringifyEntries(Tail(o))

JSONstringifyTeacherInfo(info) == <<"{">> \o stringifyEntries(info) \o <<"}">>

\* JSON.stringify(tempConfig)
JSONstringifyConfig(c) ==
  <<"{", "school", c.school, "schoolCode", c.schoolCode, "grade", c.grade,
    "class", c.class, "lunchAfter", numberToString(c.lunchAfter), "}">>

\* Parses the properties of an inner object from token i on; yields the object
\* and the position after its closing brace.
RECURSIVE parseProps(_, _, _)
parseProps(t, i, acc) ==
  IF t[i] = "}" THEN <<acc, i + 1>>
  ELSE parseProps(t, i + 2, Put(acc, t[i], t[i + 1]))

RECURSIVE parseEntries(_, _, _)
parseEntries(t, i, acc) ==
  IF t[i] = "}" THEN acc
  ELSE LET inner == parseProps(t, i + 2, <<>>)
       IN  parseEntries(t, inner[2], Put(acc, t[i], inner[1]))

\* JSON.parse(savedTeacherInfo)
JSONparseTeacherInfo(t) == parseEntries(t, 2, <<>>)

\* JSON.parse(savedConfig)
JSONparseConfig(t) ==
  LET o == parseProps(t, 2, <<>>)[1]
  IN  [school |-> GetStr(o, "school"), schoolCode |-> GetStr(o, "schoolCode"),
       grade |-> GetStr(o, "grade"), class |-> GetStr(o, "class"),
       lunchAfter |-> stringToNumber(GetStr(o, "lunchAfter"))]

\* ------------------------------------------------------------------- state

VARIABLES
  classConfig,          \* ClassConfig
  teacherInfo,          \* Record<string, Record<string, string>>: overrides
  tempConfig,           \* ClassConfig | null
  timetableData,        \* TimetableData | null
  isLoading,
  isWeekChangeLoading,
  error,                \* string | null
  isNextWeek,
  showConfig,
  classConfigCookie,    \* the 'classConfig' cookie: a JSON text, or absent
  teacherInfoCookie,    \* the 'teacherInfo' cookie: a JSON text, or absent
  inflight,             \* the calls awaiting their fetch, in the order issued
  returned,             \* history: what saveConfig returned in the step just taken
  dialog                \* ConfigDialog: its tempConfig, and as history the key
                        \* event just handled and the onSave calls it made

store ==
  <<classConfig, teacherInfo, tempConfig, timetableData, isLoading,
    isWeekChangeLoading, error, isNextWeek, showConfig>>
cookies == <<classConfigCookie, teacherInfoCookie>>
vars == <<store, cookies, inflight, returned, dialog>>

\* ------------------------------------------------------------------ fetch

\* new URLSearchParams({grade, classno, week, schoolcode})
Params(config, week) ==
  [grade |-> config.grade, classno |-> config.class, week |-> week,
   schoolcode |-> config.schoolCode]

\* A call suspended at `await fetch(...)`: the operation, the query it sent and
\* the config it captured (saveConfig's tempConfig).
Call(op, config, week) ==
  [op |-> op, params |-> Params(config, week), config |-> config]

\* The body of a 2xx response to `call`. The field params is history: the
\* query the response answers; the program never reads it.
Response(call, grid) == [timetable |-> grid, params |-> call.params]

\* How a fetch fails: `Error: ${response.status}` of a non-2xx response, or the
\* message of the TypeError a transport failure rejects with.
Failures == {"Error: 404", "Failed to fetch"}

\* err instanceof Error holds for both, so the message is embedded.
loadErrorMessage(msg) == "load error: " \o msg
saveErrorMessage(msg) == "save error: " \o msg

Remove(q, i) == [j \in 1..(Len(q) - 1) |-> IF j < i THEN q[j] ELSE q[j + 1]]

CanIssue == Len(inflight) < MaxInFlight

\* ------------------------------------------------------------------- Init
\* The store as created (lines 66-76), on a first visit: no cookies yet.

Init ==
  /\ classConfig = DEFAULT_CONFIG
  /\ teacherInfo = <<>>
  /\ tempConfig = None
  /\ timetableData = None
  /\ isLoading = TRUE
  /\ isWeekChangeLoading = FALSE
  /\ error = None
  /\ isNextWeek = FALSE
  /\ showConfig = FALSE
  /\ classConfigCookie = None
  /\ teacherInfoCookie = None
  /\ inflight = <<>>
  /\ returned = None
  /\ dialog = [tempConfig |-> DEFAULT_CONFIG, keyDown |-> None, onSave |-> <<>>]

\* -------------------------------------------------------- initializeStore

savedConfigOrDefault ==
  IF IsSome(classConfigCookie) THEN JSONparseConfig(Val(classConfigCookie))
  ELSE DEFAULT_CONFIG

savedTeacherInfoOrEmpty ==
  IF IsSome(teacherInfoCookie) THEN JSONparseTeacherInfo(Val(teacherInfoCookie))
  ELSE <<>>

\* A faulty initializeStore, to test C12 against: it persists the config it
\* starts with.
InitializeStore_persists ==
  /\ CanIssue
  /\ classConfig' = savedConfigOrDefault
  /\ teacherInfo' = savedTeacherInfoOrEmpty
  /\ tempConfig' = None
  /\ isLoading' = TRUE
  /\ classConfigCookie' = Some(JSONstringifyConfig(savedConfigOrDefault))
  /\ inflight' = Append(inflight, Call("initializeStore", savedConfigOrDefault, "0"))
  /\ returned' = None
  /\ UNCHANGED <<dialog, timetableData, isWeekChangeLoading, error, isNextWeek,
                 showConfig, teacherInfoCookie>>

InitializeStore ==
  /\ CanIssue
  /\ classConfig' = savedConfigOrDefault
  /\ teacherInfo' = savedTeacherInfoOrEmpty
  /\ tempConfig' = None
  /\ isLoading' = TRUE
  /\ inflight' = Append(inflight, Call("initializeStore", savedConfigOrDefault, "0"))
  /\ returned' = None
  /\ UNCHANGED <<dialog, timetableData, isWeekChangeLoading, error, isNextWeek,
                 showConfig, cookies>>

InitializeStoreOk(i, grid) ==
  /\ inflight[i].op = "initializeStore"
  /\ timetableData' = Some(Response(inflight[i], grid))
  /\ isNextWeek' = FALSE
  /\ error' = None
  /\ isLoading' = FALSE
  /\ inflight' = Remove(inflight, i)
  /\ returned' = None
  /\ UNCHANGED <<dialog, classConfig, teacherInfo, tempConfig, isWeekChangeLoading,
                 showConfig, cookies>>

InitializeStoreFail(i, msg) ==
  /\ inflight[i].op = "initializeStore"
  /\ error' = Some(loadErrorMessage(msg))
  /\ isLoading' = FALSE
  /\ inflight' = Remove(inflight, i)
  /\ returned' = None
  /\ UNCHANGED <<dialog, classConfig, teacherInfo, tempConfig, timetableData,
                 isWeekChangeLoading, isNextWeek, showConfig, cookies>>

\* ------------------------------------- setTempConfig, resetTempConfig, ...

SetTempConfig(config) ==
  /\ tempConfig' = Some(config)
  /\ returned' = None
  /\ UNCHANGED <<dialog, classConfig, teacherInfo, timetableData, isLoading,
                 isWeekChangeLoading, error, isNextWeek, showConfig, cookies,
                 inflight>>

ResetTempConfig ==
  /\ tempConfig' = None
  /\ returned' = None
  /\ UNCHANGED <<dialog, classConfig, teacherInfo, timetableData, isLoading,
                 isWeekChangeLoading, error, isNextWeek, showConfig, cookies,
                 inflight>>

SetShowConfig(show) ==
  /\ showConfig' = show
  /\ tempConfig' = IF show THEN tempConfig ELSE None
  /\ error' = None
  /\ returned' = None
  /\ UNCHANGED <<dialog, classConfig, teacherInfo, timetableData, isLoading,
                 isWeekChangeLoading, isNextWeek, cookies, inflight>>

\* -------------------------------------------------------------- changeWeek

\* (isNext && get().isNextWeek) || (!isNext && !get().isNextWeek)
alreadyOnWeek(isNext, current) == (isNext /\ current) \/ (~isNext /\ ~current)

\* week: isNext ? "1" : "0"
weekParam(isNext) == IF isNext THEN "1" ELSE "0"

\* The isNext argument of a suspended changeWeek call.
isNextOf(call) == call.params.week = "1"

\* A faulty changeWeek, to test C10 against: it moves isNextWeek when the fetch
\* is issued instead of when it succeeds.
ChangeWeek_eager(isNext) ==
  IF alreadyOnWeek(isNext, isNextWeek)
    THEN /\ returned' = None
         /\ UNCHANGED <<dialog, store, cookies, inflight>>
    ELSE /\ CanIssue
         /\ isWeekChangeLoading' = TRUE
         /\ isNextWeek' = isNext
         /\ inflight' = Append(inflight,
                               Call("changeWeek", classConfig, weekParam(isNext)))
         /\ returned' = None
         /\ UNCHANGED <<dialog, classConfig, teacherInfo, tempConfig, timetableData,
                        isLoading, error, showConfig, cookies>>

ChangeWeek(isNext) ==
  IF alreadyOnWeek(isNext, isNextWeek)
    THEN /\ returned' = None
         /\ UNCHANGED <<dialog, store, cookies, inflight>>
    ELSE /\ CanIssue
         /\ isWeekChangeLoading' = TRUE
         /\ inflight' = Append(inflight,
                               Call("changeWeek", classConfig, weekParam(isNext)))
         /\ returned' = None
         /\ UNCHANGED <<dialog, classConfig, teacherInfo, tempConfig, timetableData,
                        isLoading, error, isNextWeek, showConfig, cookies>>

ChangeWeekOk(i, grid) ==
  /\ inflight[i].op = "changeWeek"
  /\ timetableData' = Some(Response(inflight[i], grid))
  /\ isNextWeek' = isNextOf(inflight[i])
  /\ error' = None
  /\ isWeekChangeLoading' = FALSE
  /\ inflight' = Remove(inflight, i)
  /\ returned' = None
  /\ UNCHANGED <<dialog, classConfig, teacherInfo, tempConfig, isLoading, showConfig,
                 cookies>>

\* A faulty failure branch of changeWeek, to test C8 against: it drops the
\* loaded timetable.
ChangeWeekFail_clears(i, msg) ==
  /\ inflight[i].op = "changeWeek"
  /\ error' = Some(loadErrorMessage(msg))
  /\ timetableData' = None
  /\ isWeekChangeLoading' = FALSE
  /\ inflight' = Remove(inflight, i)
  /\ returned' = None
  /\ UNCHANGED <<dialog, classConfig, teacherInfo, tempConfig, isLoading, isNextWeek,
                 showConfig, cookies>>

ChangeWeekFail(i, msg) ==
  /\ inflight[i].op = "changeWeek"
  /\ error' = Some(loadErrorMessage(msg))
  /\ isWeekChangeLoading' = FALSE
  /\ inflight' = Remove(inflight, i)
  /\ returned' = None
  /\ UNCHANGED <<dialog, classConfig, teacherInfo, tempConfig, timetableData,
                 isLoading, isNextWeek, showConfig, cookies>>

\* ----------------------------------------------------------- fetchTimetable

\* const currentConfig = config || get().classConfig
currentConfig(config) == IF IsSome(config) THEN Val(config) ELSE classConfig

\* A direct call of fetchTimetable(config?), up to its await.
FetchTimetable(config) ==
  /\ CanIssue
  /\ isLoading' = TRUE
  /\ error' = None
  /\ inflight' = Append(inflight, Call("fetchTimetable", currentConfig(config),
                                       weekParam(isNextWeek)))
  /\ returned' = None
  /\ UNCHANGED <<dialog, classConfig, teacherInfo, tempConfig, timetableData,
                 isWeekChangeLoading, isNextWeek, showConfig, cookies>>

\* A faulty success branch of fetchTimetable, to test C15 against: the
\* response is dropped as stale when a newer request has been issued.
FetchTimetableOk_dropsStale(i, grid) ==
  /\ inflight[i].op = "fetchTimetable"
  /\ timetableData' = IF i < Len(inflight) THEN timetableData
                      ELSE Some(Response(inflight[i], grid))
  /\ isLoading' = FALSE
  /\ inflight' = Remove(inflight, i)
  /\ returned' = None
  /\ UNCHANGED <<dialog, classConfig, teacherInfo, tempConfig, isWeekChangeLoading,
                 error, isNextWeek, showConfig, cookies>>

FetchTimetableOk(i, grid) ==
  /\ inflight[i].op = "fetchTimetable"
  /\ timetableData' = Some(Response(inflight[i], grid))
  /\ isLoading' = FALSE
  /\ inflight' = Remove(inflight, i)
  /\ returned' = None
  /\ UNCHANGED <<dialog, classConfig, teacherInfo, tempConfig, isWeekChangeLoading,
                 error, isNextWeek, showConfig, cookies>>

\* The error is set, isLoading is cleared and err is thrown to the caller.
FetchTimetableFail(i, msg) ==
  /\ inflight[i].op = "fetchTimetable"
  /\ error' = Some(loadErrorMessage(msg))
  /\ isLoading' = FALSE
  /\ inflight' = Remove(inflight, i)
  /\ returned' = None
  /\ UNCHANGED <<dialog, classConfig, teacherInfo, tempConfig, timetableData,
                 isWeekChangeLoading, isNextWeek, showConfig, cookies>>

\* -------------------------------------------------------------- saveConfig
\* saveConfig awaits fetchTimetable(tempConfig). The part of fetchTimetable
\* before its await runs in the calling step; when the response arrives,
\* fetchTimetable's continuation and then saveConfig's run as consecutive
\* microtasks, before any other event is handled, so they are one step.

\* A faulty saveConfig, to test C7 against: it commits the candidate before
\* the fetch.
SaveConfig_commitsFirst ==
  IF ~IsSome(tempConfig)
    THEN /\ returned' = Some(FALSE)
         /\ UNCHANGED <<dialog, store, cookies, inflight>>
    ELSE /\ CanIssue
         /\ isNextWeek' = FALSE
         /\ isWeekChangeLoading' = TRUE
         /\ isLoading' = TRUE
         /\ error' = None
         /\ classConfigCookie' = Some(JSONstringifyConfig(Val(tempConfig)))
         /\ classConfig' = Val(tempConfig)
         /\ inflight' = Append(inflight,
                               Call("saveConfig", Val(tempConfig), weekParam(FALSE)))
         /\ returned' = None
         /\ UNCHANGED <<dialog, teacherInfo, tempConfig, timetableData, showConfig,
                        teacherInfoCookie>>

SaveConfig ==
  IF ~IsSome(tempConfig)
    THEN /\ returned' = Some(FALSE)
         /\ UNCHANGED <<dialog, store, cookies, inflight>>
    ELSE /\ CanIssue
         /\ isNextWeek' = FALSE
         /\ isWeekChangeLoading' = TRUE
         /\ isLoading' = TRUE
         /\ error' = None
         /\ inflight' = Append(inflight,
                               Call("saveConfig", Val(tempConfig), weekParam(FALSE)))
         /\ returned' = None
         /\ UNCHANGED <<dialog, classConfig, teacherInfo, tempConfig, timetableData,
                        showConfig, cookies>>

SaveConfigOk(i, grid) ==
  /\ inflight[i].op = "saveConfig"
  /\ timetableData' = Some(Response(inflight[i], grid))
  /\ isLoading' = FALSE
  /\ classConfigCookie' = Some(JSONstringifyConfig(inflight[i].config))
  /\ classConfig' = inflight[i].config
  /\ tempConfig' = None
  /\ showConfig' = FALSE
  /\ isWeekChangeLoading' = FALSE
  /\ inflight' = Remove(inflight, i)
  /\ returned' = Some(TRUE)
  /\ UNCHANGED <<dialog, teacherInfo, error, isNextWeek, teacherInfoCookie>>

\* A faulty failure branch of saveConfig, to test C6 against: fetchTimetable
\* does not rethrow, so saveConfig commits the candidate all the same.
SaveConfigFail_commits(i, msg) ==
  /\ inflight[i].op = "saveConfig"
  /\ error' = Some(loadErrorMessage(msg))
  /\ isLoading' = FALSE
  /\ classConfigCookie' = Some(JSONstringifyConfig(inflight[i].config))
  /\ classConfig' = inflight[i].config
  /\ tempConfig' = None
  /\ showConfig' = FALSE
  /\ isWeekChangeLoading' = FALSE
  /\ inflight' = Remove(inflight, i)
  /\ returned' = Some(TRUE)
  /\ UNCHANGED <<dialog, teacherInfo, timetableData, isNextWeek, teacherInfoCookie>>

\* A faulty failure branch of saveConfig, to test C14 against: the catch
\* block does not reset isWeekChangeLoading.
SaveConfigFail_stuck(i, msg) ==
  /\ inflight[i].op = "saveConfig"
  /\ error' = Some(saveErrorMessage(msg))
  /\ isLoading' = FALSE
  /\ inflight' = Remove(inflight, i)
  /\ returned' = Some(FALSE)
  /\ UNCHANGED <<dialog, classConfig, teacherInfo, tempConfig, timetableData,
                 isWeekChangeLoading, isNextWeek, showConfig, cookies>>

SaveConfigFail(i, msg) ==
  /\ inflight[i].op = "saveConfig"
  /\ error' = Some(saveErrorMessage(msg))
  /\ isLoading' = FALSE
  /\ isWeekChangeLoading' = FALSE
  /\ inflight' = Remove(inflight, i)
  /\ returned' = Some(FALSE)
  /\ UNCHANGED <<dialog, classConfig, teacherInfo, tempConfig, timetableData,
                 isNextWeek, showConfig, cookies>>

\* ---------------------------------------------- saveTeacherInfo, getTeacherInfo

\* { ...teacherInfo, [configKey]: { ...(teacherInfo[configKey] || {}), [subject]: info } }
withOverride(info, key, subject, name) ==
  Put(info, key, Put(IF Has(info, key) THEN Get(info, key) ELSE <<>>, subject, name))

\* newInfo[configKey]?.[subject], used as a condition
hasOverrideToRemove(info, key, subject) ==
  Has(info, key) /\ Truthy(GetStr(Get(info, key), subject))

\* A faulty delete, to test C19 against: the whole class key is deleted with
\* the override, whatever other subjects it holds.
withoutOverride_dropsKey(info, key, subject) == Delete(info, key)

\* delete newInfo[configKey][subject], and the key with it when none is left
withoutOverride(info, key, subject) ==
  LET rest == Delete(Get(info, key), subject)
  IN  IF Len(Keys(rest)) = 0 THEN Delete(info, key) ELSE Put(info, key, rest)

\* A variant of savedTeacherInfo: saving the name an override already holds
\* removes the override instead of keeping it.
savedTeacherInfo_toggle(info, key, default, subject, name) ==
  IF name # default
    THEN IF Has(info, key) /\ GetStr(Get(info, key), subject) = name
           THEN withoutOverride(info, key, subject)
           ELSE withOverride(info, key, subject, name)
  ELSE IF hasOverrideToRemove(info, key, subject)
    THEN withoutOverride(info, key, subject)
  ELSE info

\* The teacherInfo that saveTeacherInfo(subject, name) leaves, given the
\* override map, the class key and the API default it read.
savedTeacherInfo(info, key, default, subject, name) ==
  IF name # default THEN withOverride(info, key, subject, name)
  ELSE IF hasOverrideToRemove(info, key, subject)
    THEN withoutOverride(info, key, subject)
  ELSE info

\* Whether that call reaches a set({ teacherInfo }) and setCookie pair.
writesTeacherInfo(info, key, default, subject, name) ==
  name # default \/ hasOverrideToRemove(info, key, subject)

\* A faulty cookie write, to test C16 against: only the branch that sets an
\* override persists the map, the branch that deletes one does not.
savedTeacherInfoCookie_setOnly(cookie, info, key, default, subject, name) ==
  IF name # default
    THEN Some(JSONstringifyTeacherInfo(
                savedTeacherInfo(info, key, default, subject, name)))
    ELSE cookie

\* The 'teacherInfo' cookie that call leaves.
savedTeacherInfoCookie(cookie, info, key, default, subject, name) ==
  IF writesTeacherInfo(info, key, default, subject, name)
    THEN Some(JSONstringifyTeacherInfo(
                savedTeacherInfo(info, key, default, subject, name)))
    ELSE cookie

SaveTeacherInfo(subject, name) ==
  LET key == configKey(classConfig)
      default == defaultInfo(timetableData, subject)
  IN  /\ teacherInfo' = savedTeacherInfo(teacherInfo, key, default, subject, name)
      /\ teacherInfoCookie' =
           savedTeacherInfoCookie(teacherInfoCookie, teacherInfo, key, default,
                                  subject, name)
      /\ returned' = None
      /\ UNCHANGED <<dialog, classConfig, tempConfig, timetableData, isLoading,
                     isWeekChangeLoading, error, isNextWeek, showConfig,
                     classConfigCookie, inflight>>

\* teacherInfo[configKey]?.[subject]
override(info, key, subject) ==
  IF Has(info, key) THEN GetStr(Get(info, key), subject) ELSE Undefined

\* defaultInfo || undefined
orUndefined(v) == IF Truthy(v) THEN v ELSE Undefined

\* A variant of effectiveTeacher: the override is tested for truthiness
\* (if (override)) instead of against undefined.
effectiveTeacher_truthy(info, key, data, subject) ==
  IF Truthy(override(info, key, subject))
    THEN override(info, key, subject)
    ELSE orUndefined(defaultInfo(data, subject))

\* What getTeacherInfo(subject) returns, given the state it reads.
effectiveTeacher(info, key, data, subject) ==
  IF override(info, key, subject) # Undefined
    THEN override(info, key, subject)
    ELSE orUndefined(defaultInfo(data, subject))

getTeacherInfo(subject) ==
  effectiveTeacher(teacherInfo, configKey(classConfig), timetableData, subject)

\* ------------------------------------------------------------ ConfigDialog
\* src/components/config-dialog.tsx. The dialog keeps its own tempConfig, the
\* staging buffer, and hands it to the onSave prop. Its classConfig prop is
\* taken to be the store's classConfig; the component that renders the dialog
\* and implements onSave is not part of the sources, so onSave calls are
\* recorded and no store operation follows from them.

\* What the user can enter: the school name is free text, the Selects offer
\* grades 1-3, classes 1-15 and lunch after period 3-5.
Schools == {"Mogun", "Other"}
GradeItems == {"1", "2", "3"}
ClassItems == {"1", "2", "4"}
LunchItems == {3, 4, 5}

\* Where the keyboard focus is: in the school Input, or on any other element
\* inside DialogContent, whose key events reach DialogContent unhandled.
Focus == {"school", "content"}
KeyNames == {"Enter", "a"}

\* handleSave: onSave(tempConfig)
handleSave(config) == <<config>>

\* handleKeyDown of DialogContent: the onSave calls it makes.
handleKeyDown(key, shiftKey, config) ==
  IF key = "Enter" /\ ~shiftKey THEN handleSave(config) ELSE <<>>

\* onKeyDown of the school Input: the onSave calls it makes, and whether the
\* event goes on to DialogContent (no stopPropagation).
inputKeyDown(key, config) == IF key = "Enter" THEN handleSave(config) ELSE <<>>
inputPropagates(key) == key # "Enter"

\* The onSave calls one key press makes, in order.
keyDownCalls(focus, key, shiftKey, config) ==
  IF focus = "school"
    THEN inputKeyDown(key, config)
           \o (IF inputPropagates(key) THEN handleKeyDown(key, shiftKey, config)
               ELSE <<>>)
    ELSE handleKeyDown(key, shiftKey, config)

\* Everything but the dialog stays as it is.
storeUntouched == returned' = None /\ UNCHANGED <<store, cookies, inflight>>

\* useEffect: the dialog is opened, or its classConfig prop changed while open.
DialogOpen ==
  /\ dialog' = [tempConfig |-> classConfig, keyDown |-> None, onSave |-> <<>>]
  /\ storeUntouched

\* An edit of one field: setTempConfig({ ...tempConfig, [field]: value })
edited(config) == [tempConfig |-> config, keyDown |-> None, onSave |-> <<>>]

SetSchool(value) ==
  /\ dialog' = edited([dialog.tempConfig EXCEPT !.school = value])
  /\ storeUntouched

SetGrade(value) ==
  /\ dialog' = edited([dialog.tempConfig EXCEPT !.grade = value])
  /\ storeUntouched

SetClass(value) ==
  /\ dialog' = edited([dialog.tempConfig EXCEPT !.class = value])
  /\ storeUntouched

SetLunchAfter(value) ==
  /\ dialog' = edited([dialog.tempConfig EXCEPT !.lunchAfter = value])
  /\ storeUntouched

\* <Button onClick={handleSave}>
ClickSave ==
  /\ dialog' = [dialog EXCEPT !.keyDown = None,
                              !.onSave = handleSave(dialog.tempConfig)]
  /\ storeUntouched

\* A key is pressed with the focus inside the dialog.
KeyDown(focus, key, shiftKey) ==
  /\ dialog' = [dialog EXCEPT
                  !.keyDown = Some([focus |-> focus, key |-> key,
                                    shiftKey |-> shiftKey]),
                  !.onSave = keyDownCalls(focus, key, shiftKey, dialog.tempConfig)]
  /\ storeUntouched

\* ------------------------------------------------------------------- Next

\* The arguments fetchTimetable is called with: none, or a config.
ConfigArgs == {None} \cup {Some(c) : c \in Configs}

\* The whole store, with every input.
Next ==
  \/ InitializeStore
  \/ \E i \in 1..Len(inflight), grid \in Grids : InitializeStoreOk(i, grid)
  \/ \E i \in 1..Len(inflight), msg \in Failures : InitializeStoreFail(i, msg)
  \/ \E config \in Configs : SetTempConfig(config)
  \/ ResetTempConfig
  \/ \E show \in BOOLEAN : SetShowConfig(show)
  \/ \E isNext \in BOOLEAN : ChangeWeek(isNext)
  \/ \E i \in 1..Len(inflight), grid \in Grids : ChangeWeekOk(i, grid)
  \/ \E i \in 1..Len(inflight), msg \in Failures : ChangeWeekFail(i, msg)
  \/ \E config \in ConfigArgs : FetchTimetable(config)
  \/ \E i \in 1..Len(inflight), grid \in Grids : FetchTimetableOk(i, grid)
  \/ \E i \in 1..Len(inflight), msg \in Failures : FetchTimetableFail(i, msg)
  \/ SaveConfig
  \/ \E i \in 1..Len(inflight), grid \in Grids : SaveConfigOk(i, grid)
  \/ \E i \in 1..Len(inflight), msg \in Failures : SaveConfigFail(i, msg)
  \/ \E subject \in Subjects, name \in Teachers : SaveTeacherInfo(subject, name)
  \/ DialogOpen
  \/ \E value \in Schools : SetSchool(value)
  \/ \E value \in GradeItems : SetGrade(value)
  \/ \E value \in ClassItems : SetClass(value)
  \/ \E value \in LunchItems : SetLunchAfter(value)
  \/ ClickSave
  \/ \E focus \in Focus, key \in KeyNames, shiftKey \in BOOLEAN :
       KeyDown(focus, key, shiftKey)

Spec == Init /\ [][Next]_vars

\* TLC explores the store under three environments, each a part of Next, and
\* the settings dialog under a fourth.

\* No fetch is awaiting its response.
Idle == inflight = <<>>

\* SpecFetch: the fetches and the settings dialog, with up to MaxInFlight
\* fetches overlapping. initializeStore is called while no fetch is pending
\* (on mount), the user edits no teacher name, the server has two grids and
\* only saveConfig passes fetchTimetable a config.
FetchGrids ==
  { << <<Cell("Math", "Kim"), Cell("Eng", "Lee")>>, <<Cell("Math", "Lee")>> >>,
    << <<Cell("Eng", "Kim")>> >> }

NextFetch ==
  \/ Idle /\ InitializeStore
  \/ \E i \in 1..Len(inflight), grid \in FetchGrids : InitializeStoreOk(i, grid)
  \/ \E i \in 1..Len(inflight), msg \in Failures : InitializeStoreFail(i, msg)
  \/ \E config \in Configs : SetTempConfig(config)
  \/ ResetTempConfig
  \/ \E show \in BOOLEAN : SetShowConfig(show)
  \/ \E isNext \in BOOLEAN : ChangeWeek(isNext)
  \/ \E i \in 1..Len(inflight), grid \in FetchGrids : ChangeWeekOk(i, grid)
  \/ \E i \in 1..Len(inflight), msg \in Failures : ChangeWeekFail(i, msg)
  \/ FetchTimetable(None)
  \/ \E i \in 1..Len(inflight), grid \in FetchGrids : FetchTimetableOk(i, grid)
  \/ \E i \in 1..Len(inflight), msg \in Failures : FetchTimetableFail(i, msg)
  \/ SaveConfig
  \/ \E i \in 1..Len(inflight), grid \in FetchGrids : SaveConfigOk(i, grid)
  \/ \E i \in 1..Len(inflight), msg \in Failures : SaveConfigFail(i, msg)

SpecFetch == Init /\ [][NextFetch]_vars

\* SpecOverride: the teacher overrides with every subject and name, two
\* classes and every grid. The user waits for a fetch to end before starting
\* the next one and stays on the current week, and the server answers.
NextOverride ==
  \/ Idle /\ InitializeStore
  \/ \E i \in 1..Len(inflight), grid \in Grids : InitializeStoreOk(i, grid)
  \/ \E config \in Configs : SetTempConfig(config)
  \/ (Idle \/ ~IsSome(tempConfig)) /\ SaveConfig
  \/ \E i \in 1..Len(inflight), grid \in Grids : SaveConfigOk(i, grid)
  \/ \E subject \in Subjects, name \in Teachers : SaveTeacherInfo(subject, name)

SpecOverride == Init /\ [][NextOverride]_vars

\* SpecIdentity: the settings dialog, the cookies and failing fetches, with
\* overrides of one name. The user waits for a fetch to end before starting
\* the next one and stays on the current week.
NextIdentity ==
  \/ Idle /\ InitializeStore
  \/ \E i \in 1..Len(inflight), grid \in FetchGrids : InitializeStoreOk(i, grid)
  \/ \E i \in 1..Len(inflight), msg \in Failures : InitializeStoreFail(i, msg)
  \/ \E config \in Configs : SetTempConfig(config)
  \/ ResetTempConfig
  \/ \E show \in BOOLEAN : SetShowConfig(show)
  \/ (Idle \/ ~IsSome(tempConfig)) /\ SaveConfig
  \/ \E i \in 1..Len(inflight), grid \in FetchGrids : SaveConfigOk(i, grid)
  \/ \E i \in 1..Len(inflight), msg \in Failures : SaveConfigFail(i, msg)
  \/ \E subject \in Subjects : SaveTeacherInfo(subject, "Lee")

SpecIdentity == Init /\ [][NextIdentity]_vars

\* SpecDialog: the settings dialog alone, over the store as created.
NextDialog ==
  \/ DialogOpen
  \/ \E value \in Schools : SetSchool(value)
  \/ \E value \in GradeItems : SetGrade(value)
  \/ \E value \in ClassItems : SetClass(value)
  \/ \E value \in LunchItems : SetLunchAfter(value)
  \/ ClickSave
  \/ \E focus \in Focus, key \in KeyNames, shiftKey \in BOOLEAN :
       KeyDown(focus, key, shiftKey)

SpecDialog == Init /\ [][NextDialog]_vars

\* ------------------------------------------------- properties: the overrides

\* The class key of the active identity.
K == configKey(classConfig)

\* The API default of a subject in the loaded timetable.
D(subject) == defaultInfo(timetableData, subject)

\* The (K, subject) entry of the override map is present.
hasEntry(info, subject) == override(info, K, subject) # Undefined

\* The override map after saveTeacherInfo(subject, name) on map info.
after(info, subject, name) == savedTeacherInfo(info, K, D(subject), subject, name)

\* C1: after saveTeacherInfo(S, D), where D is the API default of S in the
\* loaded timetable, getTeacherInfo(S) returns D and the override map has no
\* entry for (K, S), whatever the map held before and whatever D is.
C1_DefaultWriteClearsOverride ==
  [][\A subject \in Subjects, name \in Teachers :
       (SaveTeacherInfo(subject, name) /\ name = D(subject))
         => (getTeacherInfo(subject) = name /\ ~hasEntry(teacherInfo, subject))'
    ]_vars

\* C2: after saveTeacherInfo(S, E) with E different from the API default of S
\* (which may be absent), getTeacherInfo(S) returns E.
C2_OverrideWriteIsEffective ==
  \A subject \in Subjects, name \in Teachers :
    name # D(subject)
      => effectiveTeacher(after(teacherInfo, subject, name), K, timetableData,
                          subject) = name

\* C2 happens: the empty name overrides a named default of one subject, and a
\* name overrides a subject the loaded timetable does not have.
C2_Witness ==
  /\ IsSome(timetableData)
  /\ \E s1, s2 \in Subjects :
       /\ override(teacherInfo, K, s1) = ""
       /\ Truthy(D(s1))
       /\ getTeacherInfo(s1) = ""
       /\ D(s2) = Undefined
       /\ getTeacherInfo(s2) = "Lee"

\* C3: no entry of the override map equals the API default of the same class
\* key and subject in the loaded timetable.
C3_NoOverrideEqualsDefault ==
  \A subject \in Subjects :
    hasEntry(teacherInfo, subject)
      => override(teacherInfo, K, subject) # D(subject)

\* C4: saveTeacherInfo(S, E) twice in a row leaves the override map and the
\* teacherInfo cookie as saveTeacherInfo(S, E) once leaves them.
C4_SaveTeacherInfoIdempotent ==
  \A subject \in Subjects, name \in Teachers :
    LET info1 == after(teacherInfo, subject, name)
        cookie1 == savedTeacherInfoCookie(teacherInfoCookie, teacherInfo, K,
                                          D(subject), subject, name)
    IN  /\ after(info1, subject, name) = info1
        /\ savedTeacherInfoCookie(cookie1, info1, K, D(subject), subject, name)
             = cookie1

\* C4 happens: an override was written and then removed again, so both
\* branches have written the cookie.
C4_Witness ==
  /\ teacherInfo = <<>>
  /\ teacherInfoCookie = Some(JSONstringifyTeacherInfo(<<>>))
  /\ IsSome(timetableData)

\* C5: an override E for (K, S) that differs from the default D is in place;
\* saveTeacherInfo(S, D) then removes the entry, makes D the effective teacher
\* again and leaves no class key with an empty subject map.
C5_RoundTrip ==
  [][\A subject \in Subjects, name \in Teachers :
       ( /\ hasEntry(teacherInfo, subject)
         /\ override(teacherInfo, K, subject) # D(subject)
         /\ name = D(subject)
         /\ SaveTeacherInfo(subject, name) )
         => ( /\ ~hasEntry(teacherInfo, subject)
              /\ getTeacherInfo(subject) = name
              /\ \A i \in 1..Len(teacherInfo) : teacherInfo[i][2] # <<>> )'
    ]_vars

\* ----------------------------------------------- properties: the identity

\* The step issues the fetch of operation op.
issues(op) ==
  /\ Len(inflight') > Len(inflight)
  /\ inflight'[Len(inflight')].op = op

\* The step ends a suspended call: its fetch succeeded or failed.
resolves == Len(inflight') < Len(inflight)

\* C6: saveConfig with a candidate whose fetch fails (a non-2xx response or a
\* transport failure) leaves the active identity, both cookies and the
\* override map as they were, sets an error message and returns false.
C6_FailedSaveKeepsIdentity ==
  [][ /\ issues("saveConfig")
           => UNCHANGED <<classConfig, teacherInfo, cookies>>
      /\ (resolves /\ \E i \in 1..Len(inflight), msg \in Failures :
                        SaveConfigFail(i, msg))
           => /\ UNCHANGED <<classConfig, teacherInfo, cookies>>
              /\ IsSome(error')
              /\ returned' = Some(FALSE)
    ]_vars

\* C6 happens: a save of a second candidate has just failed, after a first
\* one was committed and an override was written.
C6_Witness ==
  /\ returned = Some(FALSE)
  /\ IsSome(error)
  /\ classConfig = OTHER_CONFIG
  /\ tempConfig = Some(DEFAULT_CONFIG)
  /\ classConfigCookie = Some(JSONstringifyConfig(OTHER_CONFIG))
  /\ teacherInfo # <<>>
  /\ IsSome(teacherInfoCookie)

\* Call i is a saveConfig call whose fetch, sent with the candidate of the
\* call for the current week, has just succeeded: the step takes the call out
\* and loads the response to it.
fetchSucceededFor(i) ==
  /\ inflight[i].op = "saveConfig"
  /\ inflight[i].params = Params(inflight[i].config, "0")
  /\ inflight' = Remove(inflight, i)
  /\ \E grid \in FetchGrids : timetableData' = Some(Response(inflight[i], grid))

\* C7: saveConfig writes the candidate to the classConfig cookie, makes it the
\* active identity and clears tempConfig only in the step in which a fetch
\* sent with that candidate has succeeded; issuing the fetch and a failed
\* fetch leave tempConfig alone; the active identity is always the one the
\* cookie holds, or the default when no candidate was committed; and with no
\* tempConfig, saveConfig returns false, issues no fetch and changes nothing.
C7_CommitOnlyAfterFetch ==
  /\ [](classConfig = savedConfigOrDefault)
  /\ [][ /\ (classConfig' # classConfig \/ classConfigCookie' # classConfigCookie)
              => \E i \in 1..Len(inflight) :
                   /\ fetchSucceededFor(i)
                   /\ classConfig' = inflight[i].config
                   /\ classConfigCookie' = Some(JSONstringifyConfig(inflight[i].config))
                   /\ tempConfig' = None
                   /\ returned' = Some(TRUE)
         /\ issues("saveConfig")
              => /\ IsSome(tempConfig)
                 /\ inflight'[Len(inflight')].config = Val(tempConfig)
                 /\ tempConfig' = tempConfig
         /\ (resolves /\ \E i \in 1..Len(inflight), msg \in Failures :
                           SaveConfigFail(i, msg))
              => tempConfig' = tempConfig
         /\ (~IsSome(tempConfig) /\ SaveConfig)
              => /\ returned' = Some(FALSE)
                 /\ UNCHANGED <<store, cookies, inflight>>
       ]_vars

\* C7 happens: a candidate other than the default has just been committed.
C7_Witness ==
  /\ returned = Some(TRUE)
  /\ classConfig = OTHER_CONFIG
  /\ classConfigCookie = Some(JSONstringifyConfig(OTHER_CONFIG))
  /\ tempConfig = None
  /\ IsSome(timetableData)
  /\ Val(timetableData).params = Params(OTHER_CONFIG, "0")

\* ------------------------------------------------- properties: the fetches

\* C8: in each of initializeStore, fetchTimetable, changeWeek and saveConfig, a
\* successful fetch replaces the timetable by the response, and a failed one
\* leaves the loaded timetable as it was and sets an error message; issuing
\* a fetch leaves the timetable alone.
C8_SnapshotReplacedOrKept ==
  [][ /\ resolves
           => \E i \in 1..Len(inflight) :
                /\ inflight' = Remove(inflight, i)
                /\ \/ \E grid \in FetchGrids :
                        timetableData' = Some(Response(inflight[i], grid))
                   \/ timetableData' = timetableData /\ IsSome(error')
      /\ (resolves /\ \E i \in 1..Len(inflight), msg \in Failures :
                        \/ InitializeStoreFail(i, msg)
                        \/ FetchTimetableFail(i, msg)
                        \/ ChangeWeekFail(i, msg)
                        \/ SaveConfigFail(i, msg))
           => timetableData' = timetableData /\ IsSome(error')
      /\ (resolves /\ \E i \in 1..Len(inflight), grid \in FetchGrids :
                        \/ InitializeStoreOk(i, grid)
                        \/ FetchTimetableOk(i, grid)
                        \/ ChangeWeekOk(i, grid)
                        \/ SaveConfigOk(i, grid))
           => \E i \in 1..Len(inflight), grid \in FetchGrids :
                /\ inflight' = Remove(inflight, i)
                /\ timetableData' = Some(Response(inflight[i], grid))
      /\ ~resolves => timetableData' = timetableData
    ]_vars

\* C8 happens: a timetable was loaded and a later fetch for the next week
\* failed, so the store holds the timetable together with an error.
C8_Witness ==
  /\ IsSome(timetableData)
  /\ Val(timetableData).params.week = "0"
  /\ IsSome(error)
  /\ ~isNextWeek
  /\ inflight = <<>>
  /\ ~isLoading
  /\ ~isWeekChangeLoading

\* The youngest suspended call is changeWeek(true), issued from the current
\* week and not yet answered.
changeWeekTruePending ==
  /\ Len(inflight) > 0
  /\ inflight[Len(inflight)].op = "changeWeek"
  /\ isNextOf(inflight[Len(inflight)])
  /\ ~isNextWeek

\* C9: from the current week, changeWeek(true) followed by changeWeek(true)
\* before the first is answered issues one fetch: the second call issues none.
C9_SecondChangeWeekIsNoOp ==
  [][(changeWeekTruePending /\ ChangeWeek(TRUE)) => inflight' = inflight]_vars

\* C10: changeWeek(b) with isNextWeek = b issues no fetch and changes no field
\* of the store; otherwise it issues one fetch, for week "1" when b and "0"
\* when not, and leaves isNextWeek; isNextWeek becomes b when that fetch
\* succeeds and keeps its value when it fails.
C10_ChangeWeek ==
  [][ /\ \A b \in BOOLEAN :
           ChangeWeek(b)
             => IF isNextWeek = b
                  THEN UNCHANGED <<store, cookies, inflight>>
                  ELSE /\ inflight' = Append(inflight,
                                             Call("changeWeek", classConfig,
                                                  IF b THEN "1" ELSE "0"))
                       /\ isNextWeek' = isNextWeek
      /\ issues("changeWeek")
           => /\ Len(inflight') = Len(inflight) + 1
              /\ inflight'[Len(inflight')].params.week
                   = (IF isNextWeek THEN "0" ELSE "1")
              /\ isNextWeek' = isNextWeek
      /\ (resolves /\ \E i \in 1..Len(inflight), grid \in FetchGrids :
                        ChangeWeekOk(i, grid))
           => \E i \in 1..Len(inflight) :
                /\ inflight[i].op = "changeWeek"
                /\ inflight' = Remove(inflight, i)
                /\ isNextWeek' = (inflight[i].params.week = "1")
      /\ (resolves /\ \E i \in 1..Len(inflight), msg \in Failures :
                        ChangeWeekFail(i, msg))
           => isNextWeek' = isNextWeek
    ]_vars

\* C10 happens: a change to the next week succeeded and the change back
\* failed, so the store is still on the next week and holds an error.
C10_Witness ==
  /\ isNextWeek
  /\ IsSome(error)
  /\ IsSome(timetableData)
  /\ Val(timetableData).params.week = "1"
  /\ inflight = <<>>
  /\ ~isWeekChangeLoading

\* ------------------------------------------------ properties: the resolver

\* C11: getTeacherInfo(S) is the reference resolver: the (K, S) entry of the
\* override map when present; otherwise the teacher of the first cell, row by
\* row, whose subject is S; otherwise undefined (no such cell, or no timetable).
C11_ReferenceResolver ==
  \A subject \in Subjects :
    LET rows == IF IsSome(timetableData) THEN Val(timetableData).timetable
                ELSE <<>>
        cellsOfSubject ==
          UNION { { <<r, c>> : c \in { c \in 1..Len(rows[r]) :
                                         rows[r][c].subject = subject } } :
                  r \in 1..Len(rows) }
        first == CHOOSE p \in cellsOfSubject :
                   \A q \in cellsOfSubject :
                     p[1] < q[1] \/ (p[1] = q[1] /\ p[2] =< q[2])
    IN  getTeacherInfo(subject) =
          IF hasEntry(teacherInfo, subject)
            THEN override(teacherInfo, K, subject)
          ELSE IF cellsOfSubject # {} THEN rows[first[1]][first[2]].teacher
          ELSE Undefined

\* ------------------------------------------------- properties: first load

\* The step ends a suspended call of operation op.
settles(op) ==
  \E i \in 1..Len(inflight) :
    inflight[i].op = op /\ inflight' = Remove(inflight, i)

\* C12: initializeStore with no cookies makes the built-in default the active
\* identity, empties the override map and issues one fetch, for week "0" of
\* the default class; neither the call nor the end of its fetch writes a
\* cookie or changes the identity or the override map again.
C12_FirstLoad ==
  [][ /\ (classConfigCookie = None /\ teacherInfoCookie = None /\ InitializeStore)
           => /\ classConfig' = DEFAULT_CONFIG
              /\ teacherInfo' = <<>>
              /\ inflight' = Append(inflight,
                    [op |-> "initializeStore",
                     params |-> [grade |-> "3", classno |-> "4", week |-> "0",
                                 schoolcode |-> "7081492"],
                     config |-> DEFAULT_CONFIG])
              /\ cookies' = cookies
      /\ issues("initializeStore") => cookies' = cookies
      /\ (resolves /\ settles("initializeStore"))
           => UNCHANGED <<classConfig, teacherInfo, cookies>>
    ]_vars

\* C12 happens: the first load has ended with a timetable and no cookie.
C12_Witness ==
  /\ classConfigCookie = None
  /\ teacherInfoCookie = None
  /\ inflight = <<>>
  /\ ~isLoading
  /\ classConfig = DEFAULT_CONFIG
  /\ teacherInfo = <<>>
  /\ IsSome(timetableData)
  /\ Val(timetableData).params = Params(DEFAULT_CONFIG, "0")

\* ---------------------------------------------- properties: loading flags

\* A fetch of one of the operations ops is awaiting its response.
pending(ops) == \E i \in 1..Len(inflight) : inflight[i].op \in ops

\* C13: while a fetch of fetchTimetable or initializeStore is pending,
\* isLoading is true, and while a fetch of changeWeek or saveConfig is
\* pending, isWeekChangeLoading is true.
C13_FlagWhileOutstanding ==
  /\ pending({"fetchTimetable", "initializeStore"}) => isLoading
  /\ pending({"changeWeek", "saveConfig"}) => isWeekChangeLoading

\* C14 as stated: when the last pending fetch ends, isLoading and
\* isWeekChangeLoading are both false.
C14_FlagsClearedWhenIdle ==
  [][(resolves /\ inflight' = <<>>) => (~isLoading' /\ ~isWeekChangeLoading')]_vars

\* isLoading is true although no fetch that sets it is pending.
loadingWithoutFetch ==
  isLoading /\ ~pending({"initializeStore", "fetchTimetable", "saveConfig"})

\* C14, amended: with no fetch pending isWeekChangeLoading is false; and
\* isLoading is true with no fetch of initializeStore, fetchTimetable or
\* saveConfig pending only as long as that has been so since the store was
\* created, that is, until the first such fetch is issued: from then on
\* isLoading is false whenever every issued fetch has ended.
C14_FlagsClearedOnceUsed ==
  /\ [](Idle => ~isWeekChangeLoading)
  /\ [][loadingWithoutFetch' => loadingWithoutFetch]_vars

\* C14 happens: a saveConfig fetch, which sets both flags, has just failed
\* and was the last one pending.
C14_Witness ==
  /\ Idle
  /\ returned = Some(FALSE)
  /\ IsSome(error)
  /\ ~isLoading
  /\ ~isWeekChangeLoading

\* ------------------------------------------- properties: overlapping fetches

\* The fetch of suspended call i succeeds with grid, whatever its operation.
succeeds(i, grid) ==
  \/ InitializeStoreOk(i, grid)
  \/ FetchTimetableOk(i, grid)
  \/ ChangeWeekOk(i, grid)
  \/ SaveConfigOk(i, grid)

C16_CookiesMirrorStore ==
  /\ [](classConfig = savedConfigOrDefault /\ teacherInfo = savedTeacherInfoOrEmpty)
  /\ [][ /\ classConfig' # classConfig
              => classConfigCookie' = Some(JSONstringifyConfig(classConfig'))
         /\ teacherInfo' # teacherInfo
              => teacherInfoCookie' = Some(JSONstringifyTeacherInfo(teacherInfo'))
       ]_vars

\* C16 happens: a second identity is committed and overrides are stored under
\* both class keys, one of them the empty name.
C16_Witness ==
  /\ classConfig = OTHER_CONFIG
  /\ IsSome(classConfigCookie)
  /\ IsSome(teacherInfoCookie)
  /\ Len(teacherInfo) = 2
  /\ override(teacherInfo, configKey(DEFAULT_CONFIG), "Math") = ""
  /\ override(teacherInfo, configKey(OTHER_CONFIG), "Eng") = "Lee"

\* -------------------------------------- properties: the snapshot's origin

\* C17: with no fetch pending and a timetable loaded, isNextWeek is true
\* exactly when the timetable was fetched for week "1".
C17_WeekFlagMatchesSnapshot ==
  (Idle /\ IsSome(timetableData))
    => (isNextWeek <=> Val(timetableData).params.week = "1")

\* C18: with no fetch pending and a timetable loaded, the timetable was
\* fetched with the grade, class and school code of the active identity.
C18_SnapshotOfActiveIdentity ==
  (Idle /\ IsSome(timetableData))
    => /\ Val(timetableData).params.grade = classConfig.grade
       /\ Val(timetableData).params.classno = classConfig.class
       /\ Val(timetableData).params.schoolcode = classConfig.schoolCode

\* --------------------------------------- properties: saveTeacherInfo's frame

\* C19: saveTeacherInfo(S, E) with class key K leaves every entry of the
\* override map under another class key, and every entry under K for another
\* subject, as it was; and a step that changes the override map or its cookie
\* leaves the identity, the timetable, isNextWeek, the loading flags, the
\* error and the classConfig cookie as they were.
C19_SaveTeacherInfoFrame ==
  /\ [](\A subject \in Subjects, name \in Teachers :
          LET info1 == after(teacherInfo, subject, name)
          IN  \A c \in Configs, s \in Subjects :
                (configKey(c) # K \/ s # subject)
                  => override(info1, configKey(c), s)
                       = override(teacherInfo, configKey(c), s))
  /\ [][(teacherInfo' # teacherInfo \/ teacherInfoCookie' # teacherInfoCookie)
          => UNCHANGED <<classConfig, timetableData, isNextWeek, isLoading,
                         isWeekChangeLoading, error, classConfigCookie>>
       ]_vars

\* C19 happens: the active class has overrides for two subjects and the other
\* class has one, so a write has entries of all three kinds beside it.
C19_Witness ==
  /\ classConfig = DEFAULT_CONFIG
  /\ IsSome(timetableData)
  /\ override(teacherInfo, configKey(DEFAULT_CONFIG), "Math") = "Lee"
  /\ override(teacherInfo, configKey(DEFAULT_CONFIG), "Eng") = "Kim"
  /\ override(teacherInfo, configKey(OTHER_CONFIG), "Math") = "Kim"

\* ---------------------------------------------------- properties: the dialog

\* C20: a press of Enter in the settings dialog calls onSave once, with the
\* dialog's tempConfig, unless shift is held, and then it calls nothing; with
\* the focus anywhere in the dialog, the school input included.
C20_EnterSubmitsUnlessShift ==
  (IsSome(dialog.keyDown) /\ Val(dialog.keyDown).key = "Enter")
    => dialog.onSave = IF Val(dialog.keyDown).shiftKey THEN <<>>
                       ELSE <<dialog.tempConfig>>

====
